---- MODULE Spec2Model ----
(***************************************************************************)
(* Model of runners/pyrevm/runner.py: the pyrevm benchmark runner.         *)
(*                                                                         *)
(* One run of the script is one behaviour.  The command line and the file  *)
(* behind --contract-code-path are chosen in Init; every statement of      *)
(* main() and _benchmark() that can raise or that touches the engine, the  *)
(* clock or standard output is one action.  The engine (pyrevm.EVM) is an  *)
(* external collaborator: deploy and message_call return and leave their   *)
(* outcome in evm.result (the field line 37 reads), success or failure     *)
(* chosen nondeterministically.                                            *)
(***************************************************************************)
EXTENDS Integers, Sequences, FiniteSets

VARIABLES
    argv,              \* the command line: what was given for each option
    fs,                \* the file behind --contract-code-path: None or Some(text)
    args,              \* main: the Namespace parse_args returned
    contract_data,     \* main: the decoded bytecode
    evm,               \* the engine instance: None before _construct_evm
    call_data,         \* _benchmark: parameter
    num_runs,          \* _benchmark: parameter (None when --num-runs was absent)
    contract_address,  \* _benchmark: what deploy returned
    i,                 \* _benchmark: how many items the range iterator has yielded
    start,             \* _benchmark: local, a perf_counter_ns reading
    end,               \* _benchmark: local, a perf_counter_ns reading
    stdout,            \* the lines printed so far
    clock,             \* the monotonic clock perf_counter_ns reads
    engine_log,        \* history: every engine operation, with when it began and returned
    exception,         \* the uncaught exception that ended the run, if any
    exit_status,       \* None while running, Some(status) once the process has ended
    pc                 \* the statement the run is at

vars == << argv, fs, args, contract_data, evm, call_data, num_runs,
           contract_address, i, start, end, stdout, clock, engine_log,
           exception, exit_status, pc >>

----------------------------------------------------------------------------
(* Bounds of the model *)

\* longest text in the bytecode file or after --calldata
MaxLen == 3
\* largest --num-runs
MaxRuns == 3
\* the most negative --num-runs is -MaxNegRuns
MaxNegRuns == 1

----------------------------------------------------------------------------
(* Values *)

\* Python's None, and a present value
None == << >>
Some(v) == << v >>
Val(x) == x[1]

GAS_LIMIT == 1000000000
CALLER_ADDRESS == "0x1000000000000000000000000000000000000001"

\* the characters a text is made of: a hex digit, a letter that is not one,
\* and an ASCII whitespace character
HexDigits == {"6"}
Whitespace == {" "}
Alphabet == HexDigits \cup {"g"} \cup Whitespace

Texts == UNION { [1..n -> Alphabet] : n \in 0..MaxLen }

HexValue(c) == CASE c = "6" -> 6

ValueError == [ok |-> FALSE, bytes |-> << >>]

(* bytes.fromhex: ASCII whitespace is skipped between bytes; a byte is two   *)
(* adjacent hex digits; anything else is a ValueError.                       *)
RECURSIVE FromHexAt(_, _, _)
FromHexAt(s, k, acc) ==
    IF k > Len(s) THEN [ok |-> TRUE, bytes |-> acc]
    ELSE IF s[k] \in Whitespace THEN FromHexAt(s, k + 1, acc)
    ELSE IF s[k] \notin HexDigits THEN ValueError
    ELSE IF k + 1 > Len(s) THEN ValueError
    ELSE IF s[k + 1] \notin HexDigits THEN ValueError
    ELSE FromHexAt(s, k + 2, Append(acc, 16 * HexValue(s[k]) + HexValue(s[k + 1])))

\* a decoder that drops what it cannot read instead of raising
RECURSIVE FromHexLenientAt(_, _, _)
FromHexLenientAt(s, k, acc) ==
    IF k > Len(s) THEN [ok |-> TRUE, bytes |-> acc]
    ELSE IF s[k] \notin HexDigits THEN FromHexLenientAt(s, k + 1, acc)
    ELSE IF k + 1 > Len(s) \/ s[k + 1] \notin HexDigits
         THEN FromHexLenientAt(s, k + 1, acc)
    ELSE FromHexLenientAt(s, k + 2, Append(acc, 16 * HexValue(s[k]) + HexValue(s[k + 1])))

FromHex_Lenient(s) == FromHexLenientAt(s, 1, << >>)

FromHex(s) == FromHexAt(s, 1, << >>)

\* what the shell can put after --num-runs: text that int() accepts or not
NumRunsTokens ==
    { [valid |-> TRUE, value |-> n] : n \in (0 - MaxNegRuns)..MaxRuns }
        \cup { [valid |-> FALSE, value |-> 0] }

NoException == [type |-> "", line |-> 0]

----------------------------------------------------------------------------
(* Initial state: the process has started, nothing has run *)

Init ==
    /\ \E path \in {None, Some("code.hex")},
          content \in {None} \cup { Some(t) : t \in Texts },
          calldata \in {None} \cup { Some(t) : t \in Texts },
          runs \in {None} \cup { Some(t) : t \in NumRunsTokens } :
            /\ (path = None => content = None)
            /\ argv = [contract_code_path |-> path, calldata |-> calldata,
                       num_runs |-> runs]
            /\ fs = content
    /\ args = None
    /\ contract_data = None
    /\ evm = None
    /\ call_data = None
    /\ num_runs = None
    /\ contract_address = None
    /\ i = 0
    /\ start = 0
    /\ end = 0
    /\ stdout = << >>
    /\ clock = 0
    /\ engine_log = << >>
    /\ exception = NoException
    /\ exit_status = None
    /\ pc = "parse_args"

----------------------------------------------------------------------------
(* An uncaught exception ends the process with status 1; argparse's own     *)
(* error ends it with status 2.                                             *)

Raise(type, line, status) ==
    /\ exception' = [type |-> type, line |-> line]
    /\ exit_status' = Some(status)
    /\ pc' = "exit"

\* parse_args with --num-runs declared required=True
ParseArgs_Required ==
    /\ pc = "parse_args"
    /\ IF \/ argv.num_runs = None
          \/ ~ Val(argv.num_runs).valid
       THEN /\ Raise("SystemExit", 59, 2)
            /\ UNCHANGED args
       ELSE /\ args' = [contract_code_path |-> argv.contract_code_path,
                        calldata |-> argv.calldata,
                        num_runs |-> Some(Val(argv.num_runs).value)]
            /\ pc' = "load_contract_data"
            /\ UNCHANGED << exception, exit_status >>
    /\ UNCHANGED << argv, fs, contract_data, evm, call_data, num_runs,
                    contract_address, i, start, end, stdout, clock, engine_log >>

\* line 63, parse_args (lines 54-59): no option is required; --num-runs goes
\* through int(), and argparse exits with status 2 on text int() refuses
ParseArgs ==
    /\ pc = "parse_args"
    /\ IF argv.num_runs # None /\ ~ Val(argv.num_runs).valid
       THEN /\ Raise("SystemExit", 59, 2)
            /\ UNCHANGED args
       ELSE /\ args' = [contract_code_path |-> argv.contract_code_path,
                        calldata |-> argv.calldata,
                        num_runs |-> IF argv.num_runs = None THEN None
                                     ELSE Some(Val(argv.num_runs).value)]
            /\ pc' = "load_contract_data"
            /\ UNCHANGED << exception, exit_status >>
    /\ UNCHANGED << argv, fs, contract_data, evm, call_data, num_runs,
                    contract_address, i, start, end, stdout, clock, engine_log >>

\* line 65, _load_contract_data
LoadContractData ==
    /\ pc = "load_contract_data"
    /\ IF args.contract_code_path = None
       THEN /\ Raise("AssertionError", 15, 1)
            /\ UNCHANGED contract_data
       ELSE IF fs = None
       THEN /\ Raise("FileNotFoundError", 16, 1)
            /\ UNCHANGED contract_data
       ELSE IF ~ FromHex(Val(fs)).ok
       THEN /\ Raise("ValueError", 17, 1)
            /\ UNCHANGED contract_data
       ELSE /\ contract_data' = Some(FromHex(Val(fs)).bytes)
            /\ pc' = "construct_evm"
            /\ UNCHANGED << exception, exit_status >>
    /\ UNCHANGED << argv, fs, args, evm, call_data, num_runs,
                    contract_address, i, start, end, stdout, clock, engine_log >>

\* line 66, _construct_evm: a fresh engine
ConstructEvm ==
    /\ pc = "construct_evm"
    /\ evm' = [result |-> None, contracts |-> 0]
    /\ pc' = "call_benchmark"
    /\ UNCHANGED << argv, fs, args, contract_data, call_data, num_runs,
                    contract_address, i, start, end, stdout, clock, engine_log,
                    exception, exit_status >>

\* lines 68-74: the arguments of _benchmark are evaluated, then it is entered
CallBenchmark ==
    /\ pc = "call_benchmark"
    /\ IF args.calldata = None
       THEN /\ Raise("TypeError", 72, 1)
            /\ UNCHANGED << call_data, num_runs >>
       ELSE IF ~ FromHex(Val(args.calldata)).ok
       THEN /\ Raise("ValueError", 72, 1)
            /\ UNCHANGED << call_data, num_runs >>
       ELSE /\ call_data' = Some(FromHex(Val(args.calldata)).bytes)
            /\ num_runs' = args.num_runs
            /\ pc' = "deploy"
            /\ UNCHANGED << exception, exit_status >>
    /\ UNCHANGED << argv, fs, args, contract_data, evm,
                    contract_address, i, start, end, stdout, clock, engine_log >>

----------------------------------------------------------------------------
(* The engine.  An operation takes one tick of the clock.                   *)

EngineOp(op, ok) ==
    [op |-> op, began |-> clock, returned |-> clock + 1, ok |-> ok]

EvmDeploy(deployer, code, gas, ok) ==
    /\ evm' = [result |-> Some(ok),
               contracts |-> IF ok THEN evm.contracts + 1 ELSE evm.contracts]
    /\ engine_log' = Append(engine_log, EngineOp("deploy", ok))
    /\ clock' = clock + 1

EvmMessageCall(caller, to, calldata, gas, ok) ==
    /\ evm' = [evm EXCEPT !.result = Some(ok)]
    /\ engine_log' = Append(engine_log, EngineOp("message_call", ok))
    /\ clock' = clock + 1

\* lines 32-36
Deploy ==
    /\ pc = "deploy"
    /\ \E ok \in BOOLEAN :
        /\ EvmDeploy(CALLER_ADDRESS, Val(contract_data), GAS_LIMIT, ok)
        /\ contract_address' = IF ok THEN Some(evm.contracts + 1) ELSE None
    /\ pc' = "assert_success"
    /\ UNCHANGED << argv, fs, args, contract_data, call_data, num_runs,
                    i, start, end, stdout, exception, exit_status >>

\* the success of the deployment is not looked at
AssertSuccess_NoCheck ==
    /\ pc = "assert_success"
    /\ pc' = "range"
    /\ UNCHANGED << argv, fs, args, contract_data, evm, call_data, num_runs,
                    contract_address, i, start, end, stdout, clock, engine_log,
                    exception, exit_status >>

\* line 37
AssertSuccess ==
    /\ pc = "assert_success"
    /\ IF evm.result = Some(TRUE)
       THEN /\ pc' = "range"
            /\ UNCHANGED << exception, exit_status >>
       ELSE Raise("AssertionError", 37, 1)
    /\ UNCHANGED << argv, fs, args, contract_data, evm, call_data, num_runs,
                    contract_address, i, start, end, stdout, clock, engine_log >>

\* range(num_runs) that refuses a negative count
Range_RejectsNegative ==
    /\ pc = "range"
    /\ IF num_runs = None
       THEN /\ Raise("TypeError", 47, 1)
            /\ UNCHANGED i
       ELSE IF Val(num_runs) < 0
       THEN /\ Raise("ValueError", 47, 1)
            /\ UNCHANGED i
       ELSE /\ i' = 0
            /\ pc' = "for"
            /\ UNCHANGED << exception, exit_status >>
    /\ UNCHANGED << argv, fs, args, contract_data, evm, call_data, num_runs,
                    contract_address, start, end, stdout, clock, engine_log >>

\* range(num_runs or 0): an absent count read as zero
Range_NoneIsZero ==
    /\ pc = "range"
    /\ i' = 0
    /\ pc' = IF num_runs = None THEN "exit" ELSE "for"
    /\ exit_status' = IF num_runs = None THEN Some(0) ELSE exit_status
    /\ UNCHANGED << argv, fs, args, contract_data, evm, call_data, num_runs,
                    contract_address, start, end, stdout, clock, engine_log,
                    exception >>

\* line 47, first time: range(num_runs) is built; range(None) is a TypeError
Range ==
    /\ pc = "range"
    /\ IF num_runs = None
       THEN /\ Raise("TypeError", 47, 1)
            /\ UNCHANGED i
       ELSE /\ i' = 0
            /\ pc' = "for"
            /\ UNCHANGED << exception, exit_status >>
    /\ UNCHANGED << argv, fs, args, contract_data, evm, call_data, num_runs,
                    contract_address, start, end, stdout, clock, engine_log >>

\* a loop that runs once more than asked
ForNext_OffByOne ==
    /\ pc = "for"
    /\ IF i <= Val(num_runs)
       THEN /\ i' = i + 1
            /\ pc' = "start"
            /\ UNCHANGED exit_status
       ELSE /\ pc' = "exit"
            /\ exit_status' = Some(0)
            /\ UNCHANGED i
    /\ UNCHANGED << argv, fs, args, contract_data, evm, call_data, num_runs,
                    contract_address, start, end, stdout, clock, engine_log,
                    exception >>

\* line 47, each time round: the iterator yields while i < num_runs; when it
\* is exhausted _benchmark and main return and the process ends with status 0
ForNext ==
    /\ pc = "for"
    /\ IF i < Val(num_runs)
       THEN /\ i' = i + 1
            /\ pc' = "start"
            /\ UNCHANGED exit_status
       ELSE /\ pc' = "exit"
            /\ exit_status' = Some(0)
            /\ UNCHANGED i
    /\ UNCHANGED << argv, fs, args, contract_data, evm, call_data, num_runs,
                    contract_address, start, end, stdout, clock, engine_log,
                    exception >>

\* line 48
Start ==
    /\ pc = "start"
    /\ start' = clock
    /\ clock' = clock + 1
    /\ pc' = "bench"
    /\ UNCHANGED << argv, fs, args, contract_data, evm, call_data, num_runs,
                    contract_address, i, end, stdout, engine_log,
                    exception, exit_status >>

\* bench() that checks the call as line 37 checks the deployment
Bench_Checked ==
    /\ pc = "bench"
    /\ \E ok \in BOOLEAN :
        /\ EvmMessageCall(CALLER_ADDRESS, Val(contract_address), Val(call_data),
                          GAS_LIMIT, ok)
        /\ IF ok
           THEN /\ pc' = "end"
                /\ UNCHANGED << exception, exit_status >>
           ELSE Raise("AssertionError", 45, 1)
    /\ UNCHANGED << argv, fs, args, contract_data, call_data, num_runs,
                    contract_address, i, start, end, stdout >>

\* bench() that deploys the contract again before it calls it
Bench_Redeploys ==
    /\ pc = "bench"
    /\ \E ok \in BOOLEAN :
        /\ evm' = [evm EXCEPT !.result = Some(ok), !.contracts = @ + 1]
        /\ engine_log' = engine_log \o
              << EngineOp("deploy", TRUE),
                 [op |-> "message_call", began |-> clock + 1,
                  returned |-> clock + 2, ok |-> ok] >>
        /\ clock' = clock + 2
    /\ pc' = "end"
    /\ UNCHANGED << argv, fs, args, contract_data, call_data, num_runs,
                    contract_address, i, start, end, stdout,
                    exception, exit_status >>

\* bench() that makes the call twice
Bench_Twice ==
    /\ pc = "bench"
    /\ \E ok \in BOOLEAN :
        /\ evm' = [evm EXCEPT !.result = Some(ok)]
        /\ engine_log' = engine_log \o
              << EngineOp("message_call", ok),
                 [op |-> "message_call", began |-> clock + 1,
                  returned |-> clock + 2, ok |-> ok] >>
        /\ clock' = clock + 2
    /\ pc' = "end"
    /\ UNCHANGED << argv, fs, args, contract_data, call_data, num_runs,
                    contract_address, i, start, end, stdout,
                    exception, exit_status >>

\* line 49, bench (lines 39-45): the call's outcome is not looked at
Bench ==
    /\ pc = "bench"
    /\ \E ok \in BOOLEAN :
        EvmMessageCall(CALLER_ADDRESS, Val(contract_address), Val(call_data),
                       GAS_LIMIT, ok)
    /\ pc' = "end"
    /\ UNCHANGED << argv, fs, args, contract_data, call_data, num_runs,
                    contract_address, i, start, end, stdout,
                    exception, exit_status >>

\* line 50
End ==
    /\ pc = "end"
    /\ end' = clock
    /\ clock' = clock + 1
    /\ pc' = "print"
    /\ UNCHANGED << argv, fs, args, contract_data, evm, call_data, num_runs,
                    contract_address, i, start, stdout, engine_log,
                    exception, exit_status >>

\* line 51: one line, the elapsed time; the model keeps the two readings it
\* is computed from and when the line was written
PrintElapsed ==
    /\ pc = "print"
    /\ stdout' = Append(stdout, [elapsed |-> end - start, start |-> start,
                                 end |-> end, at |-> clock])
    /\ clock' = clock + 1
    /\ pc' = "for"
    /\ UNCHANGED << argv, fs, args, contract_data, evm, call_data, num_runs,
                    contract_address, i, start, end, engine_log,
                    exception, exit_status >>

Next ==
    \/ ParseArgs
    \/ LoadContractData
    \/ ConstructEvm
    \/ CallBenchmark
    \/ Deploy
    \/ AssertSuccess
    \/ Range
    \/ ForNext
    \/ Start
    \/ Bench
    \/ End
    \/ PrintElapsed

Spec == Init /\ [][Next]_vars

----------------------------------------------------------------------------
(* What the claims speak of *)

Deploys == Cardinality({ k \in DOMAIN engine_log : engine_log[k].op = "deploy" })
Calls == Cardinality({ k \in DOMAIN engine_log : engine_log[k].op = "message_call" })
FailedCalls ==
    Cardinality({ k \in DOMAIN engine_log :
                    engine_log[k].op = "message_call" /\ ~ engine_log[k].ok })
Emitted == Len(stdout)

\* the k-th invocation: the engine log holds the deployment first
CallIndex(k) ==
    CHOOSE n \in DOMAIN engine_log :
        /\ engine_log[n].op = "message_call"
        /\ Cardinality({ m \in 1..n : engine_log[m].op = "message_call" }) = k
NthCall(k) == engine_log[CallIndex(k)]

DeploySucceeded ==
    \E k \in DOMAIN engine_log : engine_log[k].op = "deploy" /\ engine_log[k].ok
DeployFailed ==
    \E k \in DOMAIN engine_log : engine_log[k].op = "deploy" /\ ~ engine_log[k].ok

Exited == pc = "exit"
Done == pc = "exit" /\ exit_status = Some(0)
Fatal == pc = "exit" /\ exit_status # Some(0)

\* the configured run count, when --num-runs was given as an integer
HasN == argv.num_runs # None /\ Val(argv.num_runs).valid
N == Val(argv.num_runs).value

\* the Driver's phase, read off the statement the run is at
Phase ==
    IF pc \in {"parse_args", "load_contract_data", "construct_evm",
               "call_benchmark", "deploy", "assert_success"} THEN "NotDeployed"
    ELSE IF pc \in {"range", "for", "start", "bench", "end", "print"} THEN "Ready"
    ELSE IF exit_status = Some(0) THEN "Done"
    ELSE "Failed"

----------------------------------------------------------------------------
(* C1: the engine's deploy operation is invoked at most once in any run,   *)
(* exactly once in every run that reaches the invocation loop or completes, *)
(* and it has returned before the first call begins: no state has a call    *)
(* with no deployment, and none has more than one deployment.               *)
Inv_C1_DeployOnceBeforeCalls ==
    /\ Deploys <= 1
    /\ Phase \in {"Ready", "Done"} => Deploys = 1
    /\ Calls > 0 =>
          /\ Deploys = 1
          /\ engine_log[1].op = "deploy"
          /\ engine_log[1].returned <= NthCall(1).began

Witness_C1 == Done /\ Calls >= 2 /\ Deploys = 1

(* C2: with a run count N >= 0, the lines emitted never exceed the calls    *)
(* completed nor N; a run whose deployment succeeded ends normally with     *)
(* exactly N calls and N lines; for N = 0 that is the deployment alone and  *)
(* no output.                                                               *)
Inv_C2_ExactlyNLines ==
    (HasN /\ N >= 0) =>
        /\ Emitted <= Calls
        /\ Emitted <= N
        /\ (Exited /\ DeploySucceeded) =>
              /\ Done
              /\ Emitted = N
              /\ Calls = N
              /\ N = 0 => (Len(engine_log) = 1 /\ stdout = << >>)

Witness_C2 == Done /\ HasN /\ N >= 2 /\ Emitted = N /\ Calls = N

(* C3: when the engine reports the deployment as unsuccessful the run ends  *)
(* fatally at the assertion of line 37, with no call made, no line emitted  *)
(* and the deployment made once only.                                       *)
Inv_C3_DeployFailureIsFatal ==
    DeployFailed =>
        /\ Deploys = 1
        /\ Calls = 0
        /\ Emitted = 0
        /\ \/ pc = "assert_success"
           \/ /\ Fatal
              /\ exception = [type |-> "AssertionError", line |-> 37]

Witness_C3 == DeployFailed /\ Fatal /\ HasN /\ N >= 1

(* C4: a call the engine reports as failed does not abort the run: whatever *)
(* the pattern of successes and failures, the run goes on, a line is        *)
(* emitted for every call made, and the run ends normally after N calls.    *)
Inv_C4_CallFailuresSwallowed ==
    Calls > 0 =>
        /\ ~ Fatal
        /\ pc \in {"for", "start", "bench", "exit"} => Emitted = Calls
        /\ pc \in {"end", "print"} => Emitted = Calls - 1
        /\ Exited => (Done /\ Calls = N /\ Emitted = N)

Witness_C4 == Done /\ FailedCalls >= 2 /\ FailedCalls < Calls /\ Emitted = Calls

----------------------------------------------------------------------------
(* Hexadecimal text, stated without the decoder *)

\* what bytes.fromhex accepts: every maximal run of non-whitespace characters
\* is made of hex digits and has an even length
WellFormedHex(s) ==
    \A a \in 1..Len(s), b \in 1..Len(s) :
        ( /\ a <= b
          /\ \A k \in a..b : s[k] \notin Whitespace
          /\ a = 1 \/ s[a - 1] \in Whitespace
          /\ b = Len(s) \/ s[b + 1] \in Whitespace )
        => /\ \A k \in a..b : s[k] \in HexDigits
           /\ (b - a + 1) % 2 = 0

\* malformed as the specification words it: an odd length or a character
\* that is not a hex digit
OddOrNonHex(s) == Len(s) % 2 = 1 \/ \E k \in 1..Len(s) : s[k] \notin HexDigits

FileGiven == argv.contract_code_path # None /\ fs # None
CalldataGiven == argv.calldata # None

(* C5 as stated: hexadecimal input of odd length or holding a non-hex       *)
(* character, in the bytecode file or after --calldata, makes the run fail  *)
(* before any deployment, with no call and no line.                         *)
Orig_C5_OddOrNonHexFails ==
    ( \/ FileGiven /\ OddOrNonHex(Val(fs))
      \/ CalldataGiven /\ OddOrNonHex(Val(argv.calldata)) )
    => /\ Deploys = 0
       /\ Calls = 0
       /\ Emitted = 0
       /\ ~ Done

(* C5, amended: hexadecimal input that bytes.fromhex rejects (a character   *)
(* that is neither a hex digit nor ASCII whitespace, or hex digits that do  *)
(* not pair up between whitespace), in the bytecode file or after           *)
(* --calldata, makes the run fail fatally before any deployment attempt:    *)
(* no deployment, no call, no line, and never a normal end.                 *)
Inv_C5_RejectedHexFailsBeforeDeploy ==
    ( \/ FileGiven /\ ~ WellFormedHex(Val(fs))
      \/ CalldataGiven /\ ~ WellFormedHex(Val(argv.calldata)) )
    => /\ Deploys = 0
       /\ Calls = 0
       /\ Emitted = 0
       /\ Phase \in {"NotDeployed", "Failed"}
       /\ pc \notin {"deploy", "assert_success"}

Witness_C5 ==
    /\ Fatal
    /\ exception = [type |-> "ValueError", line |-> 72]
    /\ ~ WellFormedHex(Val(argv.calldata))
    /\ evm # None
    /\ Deploys = 0

(* C6: measurements are streamed in invocation order: the k-th line is      *)
(* computed from readings that bracket the k-th call, it is written after   *)
(* that call returned and before the next call begins, and no call begins   *)
(* while an earlier call's line is still unwritten.                         *)
Inv_C6_StreamedInOrder ==
    /\ Emitted <= Calls
    /\ Calls <= Emitted + 1
    /\ pc = "bench" => Emitted = Calls
    /\ \A k \in 1..Emitted :
          /\ stdout[k].start <= NthCall(k).began
          /\ NthCall(k).returned <= stdout[k].end
          /\ stdout[k].end <= stdout[k].at
          /\ stdout[k].elapsed >= 0
          /\ k < Calls => stdout[k].at < NthCall(k + 1).began
          /\ k > 1 => stdout[k - 1].at < stdout[k].start

Witness_C6 == pc = "end" /\ Calls = 3 /\ Emitted = 2

(* C7: when a required input is absent (no --contract-code-path, no         *)
(* --calldata, no --num-runs, or no file at the path) the run emits no      *)
(* line, never ends with status 0, and does end: with a nonzero status.     *)
MissingInput ==
    \/ argv.contract_code_path = None
    \/ argv.calldata = None
    \/ argv.num_runs = None
    \/ argv.contract_code_path # None /\ fs = None

Inv_C7_MissingInputIsFatal ==
    MissingInput =>
        /\ Emitted = 0
        /\ Calls = 0
        /\ ~ Done
        /\ Exited => exit_status \in {Some(1), Some(2)}
        /\ ~ Exited => ENABLED Next

Witness_C7 ==
    /\ Fatal
    /\ exception.type = "FileNotFoundError"
    /\ argv.calldata # None
    /\ argv.num_runs # None

(* C8 as stated: the phase moves only NotDeployed -> Ready on a successful  *)
(* deployment, Ready -> Ready with at most N invocations, Ready -> Done     *)
(* after exactly N invocations, NotDeployed -> Failed; nothing follows Done *)
(* or Failed, and Failed is never reached from Ready.                       *)
PhaseStep ==
    \/ Phase = "NotDeployed" /\ Phase' = "NotDeployed"
    \/ /\ Phase = "NotDeployed" /\ Phase' = "Ready"
       /\ evm.result = Some(TRUE)
    \/ /\ Phase = "Ready" /\ Phase' = "Ready"
       /\ Calls' \in {Calls, Calls + 1}
       /\ HasN => Calls' <= N
    \/ /\ Phase = "Ready" /\ Phase' = "Done"
       /\ HasN
       /\ Calls = N
    \/ /\ Phase = "NotDeployed" /\ Phase' = "Failed"
       /\ Calls = 0

Orig_C8_PhaseTransitions == [][PhaseStep]_vars

(* C9: a negative --num-runs is not rejected: the run behaves as for 0, one *)
(* deployment, no call, no line, a normal end; it fails only where a run    *)
(* with N = 0 fails too, never at the loop and never in parse_args.         *)
Inv_C9_NegativeRunsAsZero ==
    (HasN /\ N < 0) =>
        /\ Calls = 0
        /\ Emitted = 0
        /\ Phase = "Ready" => (pc \in {"range", "for"} /\ Deploys = 1)
        /\ (Exited /\ DeploySucceeded) => Done
        /\ Done => (Deploys = 1 /\ Len(engine_log) = 1 /\ stdout = << >>)
        /\ Fatal => exception.line \in {15, 16, 17, 72, 37}

Witness_C9 == Done /\ HasN /\ N < 0 /\ Deploys = 1 /\ Calls = 0

(* C10: an absent --num-runs is found only after the deployment: with a     *)
(* readable, well-formed bytecode file and well-formed call data the run    *)
(* deploys once, checks the result, and then fails with no call and no      *)
(* line; an absent contract path or absent call data ends the run with the  *)
(* engine untouched.                                                        *)
Inv_C10_AbsentRunsFoundAfterDeploy ==
    /\ ( /\ argv.num_runs = None
         /\ FileGiven /\ WellFormedHex(Val(fs))
         /\ CalldataGiven /\ WellFormedHex(Val(argv.calldata))
         /\ Exited )
       => /\ Fatal
          /\ Deploys = 1
          /\ Calls = 0
          /\ Emitted = 0
          /\ DeploySucceeded => exception = [type |-> "TypeError", line |-> 47]
          /\ DeployFailed => exception = [type |-> "AssertionError", line |-> 37]
    /\ ( /\ argv.contract_code_path = None \/ argv.calldata = None
         /\ Exited )
       => /\ Fatal
          /\ Deploys = 0
          /\ evm # None => evm.result = None

Witness_C10 ==
    /\ Fatal
    /\ argv.num_runs = None
    /\ exception = [type |-> "TypeError", line |-> 47]
    /\ Deploys = 1
    /\ Calls = 0

====
